---- MODULE Spec2Model ----
(***************************************************************************)
(* Model of otel_telemetry_tester_cli/sender.py: TelemetrySender, its     *)
(* batch generators running on thread pools, the tail-mode loop, the      *)
(* signal handler and shutdown().                                         *)
(***************************************************************************)
EXTENDS Integers, Sequences, FiniteSets, TLC

\* ------------------------------------------------------------------ bounds
MaxCount == 2
MaxParallel == 2
MaxCycles == 2
MaxFaults == 1

\* tasks per batch, all kinds together: one more in single-batch mode, so
\* that all three kinds can be enabled with a concurrent pool among them
MaxTotal(tail) == IF tail THEN MaxCount ELSE MaxCount + 1

\* --------------------------------------------------------------- constants
Kinds == {"traces", "metrics", "logs"}
KindOrder == <<"traces", "metrics", "logs">>
Callers == {"main", "ext"}

VARIABLES
  args,         \* the argparse namespace: counts, parallel, tail
  ctor,         \* how far cli.main() and TelemetrySender.__init__ have got
  running,      \* self.running
  stats,        \* self.stats[kind]['sent' | 'errors']
  hasShutdown,  \* hasattr(self, '_shutdown')
  pc,           \* position of the main thread inside run()
  kind,         \* the kind whose generator ran last or is running in this batch
  results,      \* the results list of _generate_single_batch
  tasks,        \* the futures of the pool in progress, one record per task
  lock,         \* index of the task holding the generator's threading.Lock (0 = free)
  collectOk,    \* FALSE once the as_completed loop of the generator raised
  pending,      \* an exception is propagating out of run()
  sd,           \* position of each caller inside shutdown()
  ops,          \* provider operations attempted so far, in order
  \* history variables
  stats0,          \* stats at the start of the batch in progress
  invoked,         \* generators invoked in the batch in progress, in order
  cyclesStarted,   \* batches started by run()
  cyclesCompleted, \* batches that ran to the end of _generate_single_batch
  cyclesFailed,    \* batches that ended with a False among their results
  startedAtSignal, \* cyclesStarted when the first signal arrived (-1: none)
  bodyRuns,        \* times the body of shutdown() (after the marker check) ran
  overlap,         \* a shutdown() call began while another was in progress
  faults           \* exceptions raised so far by the calls the program makes

vars == <<args, ctor, running, stats, hasShutdown, pc, kind, results, tasks, lock,
          collectOk, pending, sd, ops, stats0, invoked, cyclesStarted,
          cyclesCompleted, cyclesFailed, startedAtSignal, bodyRuns, overlap,
          faults>>

\* groups of variables, for the frame conditions
cfgVars == <<args, ctor>>
mainVars == <<pc, kind, results, pending, collectOk>>
poolVars == <<tasks, lock, stats>>
sdVars == <<hasShutdown, sd, ops, bodyRuns, overlap>>
cycleVars == <<stats0, invoked, cyclesStarted, cyclesCompleted, cyclesFailed>>
sigVars == <<running, startedAtSignal>>

\* a call made by the program raises / returns normally
Raises == faults < MaxFaults /\ faults' = faults + 1
Returns == faults' = faults

\* ----------------------------------------------------------------- helpers
Count(k) ==
  IF k = "traces" THEN args.trace_count
  ELSE IF k = "metrics" THEN args.metric_count
  ELSE args.log_count

\* _validate_counts: at least one kind has count > 0
validate_counts(a) ==
  a.trace_count > 0 \/ a.metric_count > 0 \/ a.log_count > 0

KindIndex(k) == CHOOSE i \in 1..3 : KindOrder[i] = k

\* all(results)
All(rs) == \A i \in 1..Len(rs) : rs[i]

ZeroStats == [k \in Kinds |-> [sent |-> 0, errors |-> 0]]

\* a submitted task. The span fields are those of a trace task: the outcomes
\* of the two random draws, the status given to the start, middle and root
\* spans, the error event, the recorded exception, the error.propagated
\* attribute, the spans opened (with the parent each one got) and closed, in
\* order, and `ctx`, the spans current in the worker thread's context
NewTask == [pc |-> "queued", has_error |-> FALSE, tmp |-> 0, raised |-> FALSE,
            incS |-> 0, incE |-> 0, ret |-> FALSE,
            dStart |-> FALSE, dMid |-> FALSE,
            start |-> "UNSET", event |-> FALSE, middle |-> "UNSET",
            exc |-> FALSE, prop |-> FALSE, root |-> "UNSET",
            opened |-> <<>>, parents |-> <<>>, closed |-> <<>>, ctx |-> <<>>]

Reverse(s) == [n \in 1..Len(s) |-> s[Len(s) + 1 - n]]

AllDone == \A i \in 1..Len(tasks) : tasks[i].pc = "done"
InFlight == {i \in 1..Len(tasks) : tasks[i].pc \notin {"queued", "done"}}

\* _setup_providers, lines 139-148: a provider for each kind with count > 0
ProvidersFor(a) ==
  {k \in Kinds : (IF k = "traces" THEN a.trace_count
                  ELSE IF k = "metrics" THEN a.metric_count
                  ELSE a.log_count) > 0}

\* ---------------------------------------------------------------- Init
\* a sender constructed from a namespace that passed validate_args and
\* carries the `parallel` attribute read at line 44
Init ==
  /\ args \in {a \in [trace_count : 0..MaxCount, metric_count : 0..MaxCount,
                      log_count : 0..MaxCount, parallel : 1..MaxParallel,
                      tail : BOOLEAN] :
                 /\ validate_counts(a)
                 /\ a.trace_count + a.metric_count + a.log_count <= MaxTotal(a.tail)}
  /\ ctor = [via |-> "direct", pc |-> "constructed", providers |-> ProvidersFor(args),
             error |-> "none"]
  /\ running = TRUE
  /\ stats = ZeroStats
  /\ hasShutdown = FALSE
  /\ pc = "init"
  /\ kind = "none"
  /\ results = <<>>
  /\ tasks = <<>>
  /\ lock = 0
  /\ collectOk = TRUE
  /\ pending = FALSE
  /\ sd = [c \in Callers |-> "idle"]
  /\ ops = <<>>
  /\ stats0 = ZeroStats
  /\ invoked = <<>>
  /\ cyclesStarted = 0
  /\ cyclesCompleted = 0
  /\ cyclesFailed = 0
  /\ startedAtSignal = -1
  /\ bodyRuns = 0
  /\ overlap = FALSE
  /\ faults = 0

\* ------------------------------------------ cli.main() and __init__
\* what a step of the command line or of the constructor leaves alone
CtorFrame ==
  UNCHANGED <<mainVars, poolVars, sdVars, cycleVars, sigVars, faults>>

\* the namespaces the runs of SpecConfig start from. parse_args (cli.py 5-45)
\* defines no `parallel` option, so its namespace has no such attribute;
\* a caller constructing TelemetrySender directly supplies it and has no --all
Namespaces(via) ==
  {a \in [trace_count : 0..MaxCount, metric_count : 0..MaxCount,
          log_count : 0..MaxCount, tail : BOOLEAN, interval : -1..1,
          has_all : BOOLEAN, all : -1..MaxCount,
          has_parallel : BOOLEAN, parallel : 1..MaxParallel] :
     /\ a.has_all \/ a.all = 0
     /\ via = "cli" => (~a.has_parallel /\ a.parallel = 1)
     /\ via = "direct" => (a.has_parallel /\ ~a.has_all)}

\* cli.py, parse_args: the namespace is handed to validate_args
parse_args ==
  /\ ctor.pc = "parse"
  /\ ctor' = [ctor EXCEPT !.pc = "validate"]
  /\ UNCHANGED args
  /\ CtorFrame

\* cli.py 52-62: --all replaces the counts that are 0
ApplyAll(a) ==
  IF a.has_all
    THEN [a EXCEPT !.trace_count = IF @ = 0 THEN a.all ELSE @,
                   !.metric_count = IF @ = 0 THEN a.all ELSE @,
                   !.log_count = IF @ = 0 THEN a.all ELSE @]
    ELSE a

\* cli.py 53-54, 65-69: the conditions under which validate_args raises
ValidateArgsRejects(a) ==
  \/ a.has_all /\ a.all < 0
  \/ ~validate_counts(ApplyAll(a))
  \/ a.tail /\ a.interval <= 0

\* cli.py, validate_args (47-75)
validate_args ==
  /\ ctor.pc = "validate"
  /\ args' = ApplyAll(args)
  /\ ctor' = IF ValidateArgsRejects(args)
               THEN [ctor EXCEPT !.pc = "failed", !.error = "ValueError"]
               ELSE [ctor EXCEPT !.pc = "init"]
  /\ CtorFrame

\* __init__, lines 30-38: the fields are set and _validate_counts is called;
\* nothing in the constructor looks at args.interval
init_validate_counts ==
  /\ ctor.pc = "init"
  /\ ctor' = IF validate_counts(args)
               THEN [ctor EXCEPT !.pc = "providers"]
               ELSE [ctor EXCEPT !.pc = "failed", !.error = "ValueError"]
  /\ UNCHANGED args
  /\ CtorFrame

\* __init__, lines 39-42: resources, exporters, providers, signal handlers
setup_providers ==
  /\ ctor.pc = "providers"
  /\ ctor' = [ctor EXCEPT !.pc = "parallel", !.providers = ProvidersFor(args)]
  /\ UNCHANGED args
  /\ CtorFrame

\* __init__, lines 44-45: self.parallelism = args.parallel raises
\* AttributeError when the namespace has no such attribute
read_parallel ==
  /\ ctor.pc = "parallel"
  /\ ctor' = IF args.has_parallel
               THEN [ctor EXCEPT !.pc = "constructed"]
               ELSE [ctor EXCEPT !.pc = "failed", !.error = "AttributeError"]
  /\ UNCHANGED args
  /\ CtorFrame

\* ------------------------------------------------------------- run()
\* _generate_single_batch, lines 241-246: the first kind after `k` in the
\* order traces, metrics, logs whose count is > 0 ("end" when there is none).
\* The results collected so far play no part in the choice.
EnabledAfter(k) ==
  LET from == IF k = "none" THEN 0 ELSE KindIndex(k)
  IN {i \in 1..3 : i > from /\ Count(KindOrder[i]) > 0}

FirstEnabledAfter(k) ==
  IF EnabledAfter(k) = {} THEN "end"
  ELSE KindOrder[CHOOSE i \in EnabledAfter(k) : \A j \in EnabledAfter(k) : i <= j]

NextKindStopOnFailure(k, rs) ==
  IF Len(rs) > 0 /\ ~rs[Len(rs)] THEN "end" ELSE FirstEnabledAfter(k)

NextKind(k, rs) == FirstEnabledAfter(k)

\* entering _generate_single_batch: results = []
StartBatch ==
  /\ results' = <<>>
  /\ kind' = "none"
  /\ invoked' = <<>>
  /\ stats0' = stats
  /\ cyclesStarted' = cyclesStarted + 1
  /\ UNCHANGED <<pending, collectOk, cyclesCompleted, cyclesFailed>>

\* a run() that looks at self.running before its single batch
run_if_running ==
  /\ ctor.pc = "constructed"
  /\ pc = "init"
  /\ IF args.tail
       THEN pc' = "loop" /\ UNCHANGED <<kind, results, pending, collectOk, cycleVars>>
       ELSE IF running
         THEN pc' = "batch" /\ StartBatch
         ELSE pc' = "finally" /\ UNCHANGED <<kind, results, pending, collectOk, cycleVars>>
  /\ UNCHANGED <<cfgVars, poolVars, sdVars, sigVars, faults>>

\* run(), lines 213-217: dispatch on args.tail
run ==
  /\ ctor.pc = "constructed"
  /\ pc = "init"
  /\ IF args.tail
       THEN pc' = "loop" /\ UNCHANGED <<kind, results, pending, collectOk, cycleVars>>
       ELSE pc' = "batch" /\ StartBatch
  /\ UNCHANGED <<cfgVars, poolVars, sdVars, sigVars, faults>>

\* _run_continuous_mode, line 234: the test of `while self.running`. A loop
\* that never looks at the flag:
LoopTestAlways(r) == TRUE

LoopTest(r) == r

run_continuous_mode ==
  /\ pc = "loop"
  /\ IF LoopTest(running)
       THEN cyclesStarted < MaxCycles /\ pc' = "batch" /\ StartBatch
       ELSE pc' = "finally" /\ UNCHANGED <<kind, results, pending, collectOk, cycleVars>>
  /\ UNCHANGED <<cfgVars, poolVars, sdVars, sigVars, faults>>

\* _run_continuous_mode, line 236: time.sleep(interval) returns
Sleep ==
  /\ pc = "sleep"
  /\ pc' = "loop"
  /\ UNCHANGED <<cfgVars, kind, results, pending, collectOk, poolVars, sdVars,
                 cycleVars, sigVars, faults>>

\* all generators of the batch have returned
BatchComplete == pc = "batch" /\ NextKind(kind, results) = "end"

\* _generate_single_batch, lines 248-249, and the way back into run():
\* where the main thread goes and whether RuntimeError propagates
BatchExitSkippingFinally(rs, tail) ==
  IF ~All(rs) /\ ~tail THEN [pc |-> "raised", pending |-> TRUE]
  ELSE IF tail THEN [pc |-> "sleep", pending |-> FALSE]
  ELSE [pc |-> "finally", pending |-> FALSE]

\* a batch that never raises, whatever its results
BatchExitNeverRaises(rs, tail) ==
  IF tail THEN [pc |-> "sleep", pending |-> FALSE]
  ELSE [pc |-> "finally", pending |-> FALSE]

\* a batch whose failure raises in tail mode too
BatchExitRaisesInTail(rs, tail) ==
  IF ~All(rs) THEN [pc |-> "finally", pending |-> TRUE]
  ELSE IF tail THEN [pc |-> "sleep", pending |-> FALSE]
  ELSE [pc |-> "finally", pending |-> FALSE]

BatchExit(rs, tail) ==
  IF ~All(rs) /\ ~tail THEN [pc |-> "finally", pending |-> TRUE]
  ELSE IF tail THEN [pc |-> "sleep", pending |-> FALSE]
  ELSE [pc |-> "finally", pending |-> FALSE]

BatchEnd ==
  /\ BatchComplete
  /\ pc' = BatchExit(results, args.tail).pc
  /\ pending' = BatchExit(results, args.tail).pending
  /\ cyclesCompleted' = cyclesCompleted + 1
  /\ cyclesFailed' = IF All(results) THEN cyclesFailed ELSE cyclesFailed + 1
  /\ UNCHANGED <<cfgVars, kind, results, collectOk, poolVars, sdVars, stats0,
                 invoked, cyclesStarted, sigVars, faults>>

\* ------------------------------------------------------- generators
\* generate_traces / generate_metrics / generate_logs, main-thread part.
\* Either the set-up before the pool raises (the generator returns False
\* without submitting anything), or count tasks are submitted to a new pool
\* guarded by a new lock.
Generate(k) ==
  /\ pc = "batch"
  /\ NextKind(kind, results) = k
  /\ kind' = k
  /\ invoked' = Append(invoked, k)
  /\ \/ /\ Raises
        /\ results' = Append(results, FALSE)
        /\ UNCHANGED <<pc, tasks, lock>>
     \/ /\ Returns
        /\ tasks' = [i \in 1..Count(k) |-> NewTask]
        /\ lock' = 0
        /\ pc' = "gen_wait"
        /\ UNCHANGED results
  /\ UNCHANGED <<cfgVars, pending, collectOk, stats, sdVars, stats0,
                 cyclesStarted, cyclesCompleted, cyclesFailed, sigVars>>

generate_traces == Generate("traces")
generate_metrics == Generate("metrics")
generate_logs == Generate("logs")

\* the as_completed loop raises (pbar.update) after a future completed; the
\* exception leaves the loop, the executor's __exit__ still joins the pool
CollectRaise ==
  /\ pc = "gen_wait"
  /\ collectOk
  /\ \E i \in 1..Len(tasks) : tasks[i].pc = "done"
  /\ Raises
  /\ collectOk' = FALSE
  /\ UNCHANGED <<cfgVars, pc, kind, results, pending, poolVars, sdVars, cycleVars,
                 sigVars>>

\* ThreadPoolExecutor.__exit__ (shutdown(wait=True)) returns once every
\* submitted task has finished. An executor left without waiting:
PoolJoinedEarly == TRUE

PoolJoined == AllDone

\* what the generator returns: True at the end of its try block (lines 327,
\* 366, 425), False from its except clause (lines 329-331, 368-370, 427-429).
\* What the tasks returned is read by future.result() and dropped.
GeneratorResultAllTasks(ok, ts) == ok /\ \A i \in 1..Len(ts) : ts[i].ret

GeneratorResult(ok, ts) == ok

\* the generator returns True, or False from its except clause
GenerateReturn ==
  /\ pc = "gen_wait"
  /\ PoolJoined
  /\ results' = Append(results, GeneratorResult(collectOk, tasks))
  /\ tasks' = <<>>
  /\ lock' = 0
  /\ collectOk' = TRUE
  /\ pc' = "batch"
  /\ UNCHANGED <<cfgVars, kind, pending, stats, sdVars, cycleVars, sigVars, faults>>

\* ------------------------------------------------------ worker tasks
\* what a task step leaves alone
TaskFrame == UNCHANGED <<cfgVars, mainVars, sdVars, cycleVars, sigVars>>

\* ThreadPoolExecutor(max_workers=parallel): queued work is taken in
\* submission order, by at most `parallel` workers at a time
CanStart(i) ==
  /\ tasks[i].pc = "queued"
  /\ \A j \in 1..(i - 1) : tasks[j].pc # "queued"
  /\ Cardinality(InFlight) < args.parallel

TaskStart(i) ==
  /\ pc = "gen_wait"
  /\ CanStart(i)
  /\ tasks' = [tasks EXCEPT ![i].pc = "body"]
  /\ UNCHANGED <<stats, lock, faults>>
  /\ TaskFrame

\* line 262: has_error = random.random() < error_probability (traces only)
HasErrorDraws(k) == IF k = "traces" THEN BOOLEAN ELSE {FALSE}

\* the body of _generate_single_trace / _generate_single_metric /
\* _generate_single_log up to the counter update, as one step: it either
\* gets there, or a call in it raises and control goes to the task's except
\* clause. The spans of a trace task are left out here; TraceRoot to TraceEnd
\* below run the same lines span by span.
TaskBody(i) ==
  /\ pc = "gen_wait"
  /\ tasks[i].pc = "body"
  /\ \/ /\ Returns
        /\ \E he \in HasErrorDraws(kind) :
             tasks' = [tasks EXCEPT ![i].pc = "acq", ![i].has_error = he]
     \/ /\ Raises
        /\ tasks' = [tasks EXCEPT ![i].pc = "x_acq", ![i].raised = TRUE]
  /\ UNCHANGED <<stats, lock>>
  /\ TaskFrame

\* ---------------------------------------------- the spans of a trace
\* tracer.start_as_current_span: the parent of a new span is the span current
\* in the context of the calling thread (<<0, "none">>: no parent). A pool in
\* which all workers share one context:
CurrentSpanShared(ts, i) ==
  LET open == {j \in 1..Len(ts) : Len(ts[j].ctx) > 0}
  IN IF open = {} THEN <<0, "none">>
     ELSE LET j == CHOOSE j \in open : \A k \in open : j <= k
          IN <<j, ts[j].ctx[Len(ts[j].ctx)]>>

CurrentSpan(ts, i) ==
  IF Len(ts[i].ctx) = 0 THEN <<0, "none">>
  ELSE <<i, ts[i].ctx[Len(ts[i].ctx)]>>

\* `with tracer.start_as_current_span(name) as ...:` entered by task i
OpenSpan(ts, i, name) ==
  [ts[i] EXCEPT !.opened = Append(@, name),
                !.parents = Append(@, CurrentSpan(ts, i)),
                !.ctx = Append(@, name)]

\* an exception leaves the `with` blocks of the task, innermost first, and
\* reaches the except clause at line 303
Unwind(t) ==
  [t EXCEPT !.closed = @ \o Reverse(t.ctx), !.ctx = <<>>,
            !.pc = "x_acq", !.raised = TRUE]

\* line 272: has_error and random.random() < 0.5; d is the outcome of the
\* draw (the one it would have had, when has_error short-circuits it)
StartFailsWithoutDecision(has_error, d) == d

StartFailsAlways(has_error, d) == has_error

StartFails(has_error, d) == has_error /\ d

\* line 282: has_error and random.random() < 0.7
MiddleFails(has_error, d) == has_error /\ d

\* Status.is_ok of the OpenTelemetry API: true unless the status is ERROR
IsOk(status) == status # "ERROR"

\* line 289: has_error and not (start_span.is_recording() and
\* start_span.status.is_ok); the start span is still open, so it is recording
EndPropagated(has_error, startStatus) == has_error /\ ~(TRUE /\ IsOk(startStatus))

\* lines 260-267: the root span is opened and the fault decision is drawn
TraceRoot(i) ==
  /\ pc = "gen_wait"
  /\ kind = "traces"
  /\ tasks[i].pc = "body"
  /\ \/ /\ Returns
        /\ \E he \in HasErrorDraws(kind) :
             tasks' = [tasks EXCEPT ![i] =
               [OpenSpan(tasks, i, "root") EXCEPT !.has_error = he, !.pc = "t_start"]]
     \/ /\ Raises
        /\ tasks' = [tasks EXCEPT ![i] = Unwind(tasks[i])]
  /\ UNCHANGED <<stats, lock>>
  /\ TaskFrame

\* lines 270-277: the start segment is opened and, if it fails, given the
\* ERROR status and the error event
TraceStart(i) ==
  /\ pc = "gen_wait"
  /\ tasks[i].pc = "t_start"
  /\ LET o == OpenSpan(tasks, i, "start")
     IN \/ /\ Returns
           /\ \E d \in BOOLEAN :
                LET f == StartFails(o.has_error, d)
                IN tasks' = [tasks EXCEPT ![i] =
                     [o EXCEPT !.dStart = d,
                               !.start = IF f THEN "ERROR" ELSE @,
                               !.event = f,
                               !.pc = "t_middle"]]
        \/ /\ Raises
           /\ tasks' = [tasks EXCEPT ![i] = Unwind(o)]
  /\ UNCHANGED <<stats, lock>>
  /\ TaskFrame

\* lines 280-284: the middle segment is opened and, if it fails, records an
\* exception and is given the ERROR status
TraceMiddle(i) ==
  /\ pc = "gen_wait"
  /\ tasks[i].pc = "t_middle"
  /\ LET o == OpenSpan(tasks, i, "middle")
     IN \/ /\ Returns
           /\ \E d \in BOOLEAN :
                LET f == MiddleFails(o.has_error, d)
                IN tasks' = [tasks EXCEPT ![i] =
                     [o EXCEPT !.dMid = d,
                               !.middle = IF f THEN "ERROR" ELSE @,
                               !.exc = f,
                               !.pc = "t_end"]]
        \/ /\ Raises
           /\ tasks' = [tasks EXCEPT ![i] = Unwind(o)]
  /\ UNCHANGED <<stats, lock>>
  /\ TaskFrame

\* lines 287-291: the end segment is opened and marked if the error
\* propagated; then the `with` blocks of end, middle and start are left
TraceEnd(i) ==
  /\ pc = "gen_wait"
  /\ tasks[i].pc = "t_end"
  /\ LET o == OpenSpan(tasks, i, "end")
     IN \/ /\ Returns
           /\ tasks' = [tasks EXCEPT ![i] =
                [o EXCEPT !.prop = EndPropagated(o.has_error, o.start),
                          !.closed = @ \o <<"end", "middle", "start">>,
                          !.ctx = <<"root">>,
                          !.pc = "acq"]]
        \/ /\ Raises
           /\ tasks' = [tasks EXCEPT ![i] = Unwind(o)]
  /\ UNCHANGED <<stats, lock>>
  /\ TaskFrame

\* lines 294-299: which counter the normal path of a trace task increments
TraceBucketAlwaysSent(has_error) == "sent"

TraceBucket(has_error) == IF has_error THEN "errors" ELSE "sent"

\* lines 346 and 405: metric and log tasks increment 'sent'
Bucket(k, has_error) == IF k = "traces" THEN TraceBucket(has_error) ELSE "sent"

\* line 301: return not has_error; lines 347 and 406: return True
NormalReturn(k, has_error) == IF k = "traces" THEN ~has_error ELSE TRUE

\* `with lock:` can be entered when no task of the pool holds the lock
LockIgnored(l) == TRUE

LockFree(l) == l = 0

\* the counter a task at `acq` or `x_acq` is about to update
Target(t) == IF t.pc = "x_acq" THEN "errors" ELSE Bucket(kind, t.has_error)

\* `with lock:` is entered and the counter is read (the load of `+= 1`)
TaskAcquire(i) ==
  /\ pc = "gen_wait"
  /\ tasks[i].pc \in {"acq", "x_acq"}
  /\ LockFree(lock)
  /\ lock' = i
  /\ tasks' = [tasks EXCEPT
       ![i].tmp = stats[kind][Target(tasks[i])],
       ![i].pc = IF tasks[i].pc = "acq" THEN "write" ELSE "x_write"]
  /\ UNCHANGED <<stats, faults>>
  /\ TaskFrame

\* the store of `+= 1` on the normal path. A trace task with has_error goes
\* on to root_span.set_status inside the lock; any other task leaves the
\* `with lock:` block, and a metric or log task returns True
TaskWrite(i) ==
  /\ pc = "gen_wait"
  /\ tasks[i].pc = "write"
  /\ LET t == tasks[i]
         b == Bucket(kind, t.has_error)
         counted == [t EXCEPT !.tmp = 0,
                              !.incS = IF b = "sent" THEN @ + 1 ELSE @,
                              !.incE = IF b = "errors" THEN @ + 1 ELSE @]
     IN /\ stats' = [stats EXCEPT ![kind][b] = t.tmp + 1]
        /\ IF kind = "traces" /\ t.has_error
             THEN /\ tasks' = [tasks EXCEPT ![i] = [counted EXCEPT !.pc = "set_status"]]
                  /\ UNCHANGED lock
             ELSE /\ lock' = 0
                  /\ tasks' = [tasks EXCEPT ![i] =
                       IF kind = "traces"
                         THEN [counted EXCEPT !.pc = "exit"]
                         ELSE [counted EXCEPT !.pc = "done",
                                              !.ret = NormalReturn(kind, t.has_error)]]
  /\ UNCHANGED faults
  /\ TaskFrame

\* line 297: root_span.set_status(StatusCode.ERROR), inside `with lock:` and
\* after the increment; it returns or raises, and either way the lock is left
TaskSetStatus(i) ==
  /\ pc = "gen_wait"
  /\ tasks[i].pc = "set_status"
  /\ lock' = 0
  /\ \/ Returns /\ tasks' = [tasks EXCEPT ![i].pc = "exit", ![i].root = "ERROR"]
     \/ Raises /\ tasks' = [tasks EXCEPT ![i] = Unwind(tasks[i])]
  /\ UNCHANGED stats
  /\ TaskFrame

\* line 301 and the exit of `with tracer.start_as_current_span(...) as
\* root_span` (the root span ends): the task returns not has_error, or the
\* exit raises inside the try and control goes to the except clause
TaskExit(i) ==
  /\ pc = "gen_wait"
  /\ tasks[i].pc = "exit"
  /\ \/ /\ Returns
        /\ tasks' = [tasks EXCEPT ![i].pc = "done",
                                  ![i].ret = NormalReturn(kind, tasks[i].has_error),
                                  ![i].closed = @ \o Reverse(tasks[i].ctx),
                                  ![i].ctx = <<>>]
     \/ /\ Raises
        /\ tasks' = [tasks EXCEPT ![i] = Unwind(tasks[i])]
  /\ UNCHANGED <<stats, lock>>
  /\ TaskFrame

\* the except clause (lines 303-307, 348-351, 407-410): errors += 1 under the
\* lock, return False
TaskExcept(i) ==
  /\ pc = "gen_wait"
  /\ tasks[i].pc = "x_write"
  /\ stats' = [stats EXCEPT ![kind]["errors"] = tasks[i].tmp + 1]
  /\ lock' = 0
  /\ tasks' = [tasks EXCEPT ![i].pc = "done", ![i].ret = FALSE,
                            ![i].tmp = 0, ![i].incE = @ + 1]
  /\ UNCHANGED faults
  /\ TaskFrame

\* ---------------------------------------------------------- signals
\* a handler that raises into the interrupted main thread (what the default
\* SIGINT handler does): the loop is left at once
handle_signal_interrupting ==
  /\ pc \in {"loop", "batch", "gen_wait", "sleep"}
  /\ running' = FALSE
  /\ startedAtSignal' = IF startedAtSignal = -1 THEN cyclesStarted ELSE startedAtSignal
  /\ pc' = "finally"
  /\ UNCHANGED <<cfgVars, kind, results, pending, collectOk, poolVars, sdVars,
                 cycleVars, faults>>

\* a handler that also runs shutdown() itself
handle_signal_shutting_down ==
  /\ pc \notin {"done", "raised"}
  /\ running' = FALSE
  /\ startedAtSignal' = IF startedAtSignal = -1 THEN cyclesStarted ELSE startedAtSignal
  /\ hasShutdown' = TRUE
  /\ UNCHANGED <<cfgVars, mainVars, poolVars, sd, ops, bodyRuns, overlap,
                 cycleVars, faults>>

\* _handle_signal, lines 201-204: self.running = False, nothing else
handle_signal ==
  /\ pc \notin {"done", "raised"}
  /\ running' = FALSE
  /\ startedAtSignal' = IF startedAtSignal = -1 THEN cyclesStarted ELSE startedAtSignal
  /\ UNCHANGED <<cfgVars, mainVars, poolVars, sdVars, cycleVars, faults>>

\* --------------------------------------------------------- shutdown()
\* the provider calls of shutdown(), lines 465-475, in program order
ShutdownOps == <<"trace_shutdown", "metric_shutdown", "metric_force_flush",
                 "log_force_flush", "log_shutdown">>

OpKind(op) ==
  IF op = "trace_shutdown" THEN "traces"
  ELSE IF op \in {"metric_shutdown", "metric_force_flush"} THEN "metrics"
  ELSE "logs"

OpIndex(op) == IF op = "start" THEN 0 ELSE CHOOSE i \in 1..5 : ShutdownOps[i] = op

\* the provider calls still ahead of position `op` whose `if count > 0` holds
OpsAfter(op) == {i \in 1..5 : i > OpIndex(op) /\ Count(OpKind(ShutdownOps[i])) > 0}

\* where shutdown() goes after `op` returned normally
NextOp(op) ==
  IF OpsAfter(op) = {} THEN "returned"
  ELSE ShutdownOps[CHOOSE i \in OpsAfter(op) : \A j \in OpsAfter(op) : i <= j]

InShutdown(c) == sd[c] \notin {"idle", "returned"}

\* run(), lines 222-225: the finally clause calls self.shutdown()
Finally ==
  /\ pc = "finally"
  /\ pc' = "shutdown"
  /\ sd' = [sd EXCEPT !["main"] = "check"]
  /\ overlap' = (overlap \/ InShutdown("ext"))
  /\ UNCHANGED <<cfgVars, kind, results, pending, collectOk, poolVars, hasShutdown,
                 ops, bodyRuns, cycleVars, sigVars, faults>>

\* another thread or code path calls sender.shutdown() as the run ends: while
\* run() is in its finally clause, or after run() has returned or raised
ExtShutdown ==
  /\ pc \in {"finally", "shutdown", "done", "raised"}
  /\ sd["ext"] = "idle"
  /\ sd' = [sd EXCEPT !["ext"] = "check"]
  /\ overlap' = (overlap \/ InShutdown("main"))
  /\ UNCHANGED <<cfgVars, mainVars, poolVars, hasShutdown, ops, bodyRuns,
                 cycleVars, sigVars, faults>>

\* line 457: hasattr(self, '_shutdown')
MarkerNeverSeen(h) == FALSE

MarkerSeen(h) == h

\* lines 457-458: if the marker is there, return
ShutdownCheck(c) ==
  /\ sd[c] = "check"
  /\ sd' = [sd EXCEPT ![c] = IF MarkerSeen(hasShutdown) THEN "returned" ELSE "set"]
  /\ UNCHANGED <<cfgVars, mainVars, poolVars, hasShutdown, ops, bodyRuns, overlap,
                 cycleVars, sigVars, faults>>

\* line 460: self._shutdown = True, then into the try block
ShutdownSet(c) ==
  /\ sd[c] = "set"
  /\ hasShutdown' = TRUE
  /\ bodyRuns' = bodyRuns + 1
  /\ sd' = [sd EXCEPT ![c] = NextOp("start")]
  /\ UNCHANGED <<cfgVars, mainVars, poolVars, ops, overlap, cycleVars, sigVars,
                 faults>>

\* lines 464-481: one provider call inside the single try block. If it
\* raises, the except clause prints and shutdown() returns
ShutdownOp(c) ==
  /\ sd[c] \in {ShutdownOps[i] : i \in 1..5}
  /\ ops' = Append(ops, sd[c])
  /\ \/ Returns /\ sd' = [sd EXCEPT ![c] = NextOp(sd[c])]
     \/ Raises /\ sd' = [sd EXCEPT ![c] = "returned"]
  /\ UNCHANGED <<cfgVars, mainVars, poolVars, hasShutdown, bodyRuns, overlap,
                 cycleVars, sigVars>>

\* run(), lines 219-227: after the finally clause the pending exception
\* propagates, or the statistics are printed and run() returns
RunReturn ==
  /\ pc = "shutdown"
  /\ sd["main"] = "returned"
  /\ pc' = IF pending THEN "raised" ELSE "done"
  /\ UNCHANGED <<cfgVars, kind, results, pending, collectOk, poolVars, sdVars,
                 cycleVars, sigVars, faults>>

\* ------------------------------------------------------ specification
\* the program as cli.main() drives it: one sender, one call of run(),
\* signals arriving at any time
Next ==
  \/ run
  \/ run_continuous_mode
  \/ Sleep
  \/ generate_traces
  \/ generate_metrics
  \/ generate_logs
  \/ CollectRaise
  \/ GenerateReturn
  \/ BatchEnd
  \/ \E i \in 1..Len(tasks) : TaskStart(i)
  \/ \E i \in 1..Len(tasks) : TaskBody(i)
  \/ \E i \in 1..Len(tasks) : TaskAcquire(i)
  \/ \E i \in 1..Len(tasks) : TaskWrite(i)
  \/ \E i \in 1..Len(tasks) : TaskSetStatus(i)
  \/ \E i \in 1..Len(tasks) : TaskExit(i)
  \/ \E i \in 1..Len(tasks) : TaskExcept(i)
  \/ handle_signal
  \/ Finally
  \/ \E c \in Callers : ShutdownCheck(c)
  \/ \E c \in Callers : ShutdownSet(c)
  \/ \E c \in Callers : ShutdownOp(c)
  \/ RunReturn

Spec == Init /\ [][Next]_vars

\* the steps of the program's own threads: every step but the arrival of a
\* signal
Progress ==
  \/ run
  \/ run_continuous_mode
  \/ Sleep
  \/ generate_traces
  \/ generate_metrics
  \/ generate_logs
  \/ CollectRaise
  \/ GenerateReturn
  \/ BatchEnd
  \/ \E i \in 1..Len(tasks) : TaskStart(i)
  \/ \E i \in 1..Len(tasks) : TaskBody(i)
  \/ \E i \in 1..Len(tasks) : TaskAcquire(i)
  \/ \E i \in 1..Len(tasks) : TaskWrite(i)
  \/ \E i \in 1..Len(tasks) : TaskSetStatus(i)
  \/ \E i \in 1..Len(tasks) : TaskExit(i)
  \/ \E i \in 1..Len(tasks) : TaskExcept(i)
  \/ Finally
  \/ \E c \in Callers : ShutdownCheck(c)
  \/ \E c \in Callers : ShutdownSet(c)
  \/ \E c \in Callers : ShutdownOp(c)
  \/ RunReturn

\* a tail-mode run with at most two tasks in a batch (two are enough for the
\* workers of a pool to wait for each other at the lock)
InitLive ==
  Init /\ args.tail /\ args.trace_count + args.metric_count + args.log_count <= 2

\* the same program with its threads scheduled: the main thread and the
\* workers keep running, every task, sleep and provider call returns; signals
\* may or may not arrive
SpecLive == InitLive /\ [][Next]_vars /\ WF_vars(Progress)

\* a single-batch run with a second caller of shutdown()
InitExt == Init /\ ~args.tail

NextExt ==
  \/ run
  \/ generate_traces
  \/ generate_metrics
  \/ generate_logs
  \/ CollectRaise
  \/ GenerateReturn
  \/ BatchEnd
  \/ \E i \in 1..Len(tasks) : TaskStart(i)
  \/ \E i \in 1..Len(tasks) : TaskBody(i)
  \/ \E i \in 1..Len(tasks) : TaskAcquire(i)
  \/ \E i \in 1..Len(tasks) : TaskWrite(i)
  \/ \E i \in 1..Len(tasks) : TaskSetStatus(i)
  \/ \E i \in 1..Len(tasks) : TaskExit(i)
  \/ \E i \in 1..Len(tasks) : TaskExcept(i)
  \/ Finally
  \/ ExtShutdown
  \/ \E c \in Callers : ShutdownCheck(c)
  \/ \E c \in Callers : ShutdownSet(c)
  \/ \E c \in Callers : ShutdownOp(c)
  \/ RunReturn

SpecExt == InitExt /\ [][NextExt]_vars

\* from the namespace to the first batch: through cli.main() (parse_args,
\* validate_args, TelemetrySender(args), run()) or by constructing
\* TelemetrySender directly
InitConfig ==
  /\ \E via \in {"cli", "direct"} :
       /\ args \in Namespaces(via)
       /\ ctor = [via |-> via, pc |-> IF via = "cli" THEN "parse" ELSE "init",
                  providers |-> {}, error |-> "none"]
  /\ running = TRUE
  /\ stats = ZeroStats
  /\ hasShutdown = FALSE
  /\ pc = "init"
  /\ kind = "none"
  /\ results = <<>>
  /\ tasks = <<>>
  /\ lock = 0
  /\ collectOk = TRUE
  /\ pending = FALSE
  /\ sd = [c \in Callers |-> "idle"]
  /\ ops = <<>>
  /\ stats0 = ZeroStats
  /\ invoked = <<>>
  /\ cyclesStarted = 0
  /\ cyclesCompleted = 0
  /\ cyclesFailed = 0
  /\ startedAtSignal = -1
  /\ bodyRuns = 0
  /\ overlap = FALSE
  /\ faults = 0

NextConfig ==
  \/ parse_args
  \/ validate_args
  \/ init_validate_counts
  \/ setup_providers
  \/ read_parallel
  \/ run

SpecConfig == InitConfig /\ [][NextConfig]_vars

\* a single-batch run of traces only, the body of each trace task run span
\* by span
InitTrace ==
  Init /\ ~args.tail /\ args.metric_count = 0 /\ args.log_count = 0

NextTrace ==
  \/ run
  \/ generate_traces
  \/ CollectRaise
  \/ GenerateReturn
  \/ BatchEnd
  \/ \E i \in 1..Len(tasks) : TaskStart(i)
  \/ \E i \in 1..Len(tasks) : TraceRoot(i)
  \/ \E i \in 1..Len(tasks) : TraceStart(i)
  \/ \E i \in 1..Len(tasks) : TraceMiddle(i)
  \/ \E i \in 1..Len(tasks) : TraceEnd(i)
  \/ \E i \in 1..Len(tasks) : TaskAcquire(i)
  \/ \E i \in 1..Len(tasks) : TaskWrite(i)
  \/ \E i \in 1..Len(tasks) : TaskSetStatus(i)
  \/ \E i \in 1..Len(tasks) : TaskExit(i)
  \/ \E i \in 1..Len(tasks) : TaskExcept(i)
  \/ Finally
  \/ \E c \in Callers : ShutdownCheck(c)
  \/ \E c \in Callers : ShutdownSet(c)
  \/ \E c \in Callers : ShutdownOp(c)
  \/ RunReturn

SpecTrace == InitTrace /\ [][NextTrace]_vars

\* ------------------------------------------------------------ claims
\* the kinds with count > 0, in the order traces, metrics, logs
EnabledSeq == SelectSeq(KindOrder, LAMBDA k : Count(k) > 0)

IsPrefix(s, t) == Len(s) <= Len(t) /\ \A i \in 1..Len(s) : s[i] = t[i]

Recorded(k) == stats[k].sent + stats[k].errors
Recorded0(k) == stats0[k].sent + stats0[k].errors

RunEnded == pc \in {"done", "raised"}

\* C1: after a batch in which every generator reported success, each kind's
\* counters satisfy sent + errors == N, N being the kind's configured count.
C1_BatchCountsEqualRequested ==
  (BatchComplete /\ All(results)) =>
    \A k \in Kinds : Recorded(k) = Count(k)

\* C2: every finished task of a pool has been recorded exactly once in the
\* counters, and a task that raised has added exactly one to errors.
C2_EachTaskRecordedOnce ==
  \A i \in 1..Len(tasks) :
    tasks[i].pc = "done" =>
      /\ tasks[i].incS + tasks[i].incE = 1
      /\ tasks[i].raised => tasks[i].incE = 1

\* C3: when the N tasks of a pool have all finished with success, the kind's
\* sent counter has grown by exactly N over the batch and its errors counter
\* has not changed (sent == N and errors == 0 in the first batch), whatever
\* the pool width and the interleaving of the workers.
C3_NoLostUpdates ==
  (pc = "gen_wait" /\ AllDone /\ \A i \in 1..Len(tasks) : tasks[i].ret) =>
    /\ stats[kind].sent = stats0[kind].sent + Count(kind)
    /\ stats[kind].errors = stats0[kind].errors
    /\ cyclesStarted = 1 => (stats[kind].sent = Count(kind) /\ stats[kind].errors = 0)

C3_Witness ==
  /\ pc = "gen_wait" /\ AllDone
  /\ Len(tasks) = 2 /\ args.parallel = 2
  /\ \A i \in 1..Len(tasks) : tasks[i].ret
  /\ stats[kind].sent = 2

\* a trace task that drew has_error, met no exception and has finished
SimulatedFaultDone(i) ==
  /\ kind = "traces"
  /\ tasks[i].pc = "done"
  /\ tasks[i].has_error
  /\ ~tasks[i].raised

\* C4 as stated: a simulated fault without exception returns success=true
\* and increments 'sent', not 'errors'.
C4_SimulatedFaultCountedAsSent ==
  \A i \in 1..Len(tasks) :
    SimulatedFaultDone(i) =>
      tasks[i].ret /\ tasks[i].incS = 1 /\ tasks[i].incE = 0

\* C4 amended: a simulated fault without exception returns success=false and
\* increments 'errors' exactly once, never 'sent'.
C4_SimulatedFaultCountedAsError ==
  \A i \in 1..Len(tasks) :
    SimulatedFaultDone(i) =>
      ~tasks[i].ret /\ tasks[i].incE = 1 /\ tasks[i].incS = 0

C4_Witness ==
  \E i \in 1..Len(tasks) : SimulatedFaultDone(i) /\ stats["traces"].errors >= 1

\* no provider call appears twice in ops
OpsOnce == \A i, j \in 1..Len(ops) : ops[i] = ops[j] => i = j

\* a step of caller c that finds the marker set at line 457
SecondCallStep(c) == sd[c] = "check" /\ hasShutdown /\ sd'[c] # sd[c]

\* C5: when shutdown() has been called twice, one call after the other, its
\* body has run exactly once and no provider call was made twice; the call
\* that finds the marker returns and changes nothing.
C5_ShutdownIdempotentSequential ==
  /\ []((~overlap /\ sd["main"] = "returned" /\ sd["ext"] = "returned") =>
          (bodyRuns = 1 /\ OpsOnce))
  /\ [][\A c \in Callers :
          SecondCallStep(c) =>
            /\ sd'[c] = "returned"
            /\ UNCHANGED <<cfgVars, mainVars, poolVars, hasShutdown, ops, bodyRuns,
                           cycleVars, sigVars, faults>>]_vars

C5_Witness ==
  /\ ~overlap
  /\ sd["main"] = "returned" /\ sd["ext"] = "returned"
  /\ bodyRuns = 1
  /\ Len(ops) >= 2

\* C6: however two calls of shutdown() interleave, the body of shutdown()
\* (the provider flush/close actions) runs at most once.
C6_ShutdownBodyAtMostOnce == bodyRuns <= 1

\* C7: run() calls the shutdown logic exactly once on every way out: it has
\* not run before the finally clause, and it has run once when run() returns
\* or raises.
C7_RunShutsDownExactlyOnce ==
  /\ bodyRuns <= 1
  /\ bodyRuns = 1 => pc \in {"shutdown", "done", "raised"}
  /\ RunEnded => (bodyRuns = 1 /\ sd["main"] = "returned")

C7_Witness == pc = "raised" /\ pending /\ bodyRuns = 1

\* C8: in tail mode, once the loop has been left, every cycle that was started
\* has run its batch to the end, and the cycles started are those that were
\* started when the first signal arrived: none was started after it.
C8_TailStopsAfterCurrentCycle ==
  (args.tail /\ pc \in {"finally", "shutdown", "done", "raised"}) =>
    /\ startedAtSignal # -1
    /\ cyclesStarted = startedAtSignal
    /\ cyclesCompleted = startedAtSignal

C8_Witness ==
  /\ args.tail /\ pc = "done"
  /\ startedAtSignal = 2 /\ cyclesCompleted = 2

\* the call that closes the provider of kind k
CloseOp(k) ==
  IF k = "traces" THEN "trace_shutdown"
  ELSE IF k = "metrics" THEN "metric_shutdown"
  ELSE "log_shutdown"

Attempted(op) == \E i \in 1..Len(ops) : ops[i] = op

\* the provider whose call was the last one made: the one that raised, when
\* the body of shutdown() was left early
LastProvider == IF Len(ops) = 0 THEN "none" ELSE OpKind(ops[Len(ops)])

\* C9: when the body of shutdown() has finished, the shutdown of every
\* initialized provider other than the one whose call raised has been
\* attempted.
C9_OtherProvidersAttempted ==
  (bodyRuns >= 1 /\ \A c \in Callers : ~InShutdown(c)) =>
    \A k \in Kinds :
      (Count(k) > 0 /\ k # LastProvider) => Attempted(CloseOp(k))

\* C10: the generators of a batch are invoked in the order traces, metrics,
\* logs, each enabled kind once and no other; no task of a pool is left when
\* the main thread is between generators; and at the end of the batch each
\* later kind (metrics, logs) whose generator reported success has recorded
\* its full count, whatever the earlier generators reported.
C10_GeneratorsInOrderAndIsolated ==
  /\ IsPrefix(invoked, EnabledSeq)
  /\ pc # "gen_wait" => Len(tasks) = 0
  /\ pc = "gen_wait" => (Len(invoked) > 0 /\ invoked[Len(invoked)] = kind)
  /\ BatchComplete =>
       /\ invoked = EnabledSeq
       /\ Len(results) = Len(invoked)
       /\ \A i \in 1..Len(invoked) :
            (invoked[i] # "traces" /\ results[i]) =>
              Recorded(invoked[i]) = Recorded0(invoked[i]) + Count(invoked[i])

C10_Witness ==
  /\ BatchComplete
  /\ Len(results) >= 2
  /\ ~results[1] /\ results[2]
  /\ Recorded(invoked[2]) = Recorded0(invoked[2]) + Count(invoked[2])

\* some generator of the batch reported failure
SomeFailed == \E i \in 1..Len(results) : ~results[i]

\* C11: in non-tail mode, when run() has ended, it has raised exactly when a
\* generator of the batch reported failure, and in that case shutdown() has
\* run before the error left run(); with every generator reporting success
\* run() returns without raising.
C11_FailedBatchRaisesAfterShutdown ==
  (~args.tail /\ RunEnded) =>
    /\ Len(results) = Len(EnabledSeq)
    /\ (pc = "raised") <=> SomeFailed
    /\ pc = "raised" => (bodyRuns = 1 /\ sd["main"] = "returned")

C11_Witness ==
  /\ ~args.tail /\ pc = "raised"
  /\ Len(results) = 2 /\ results[1] /\ ~results[2]
  /\ bodyRuns = 1

\* the main thread has left the tail loop
LoopLeft == pc \in {"finally", "shutdown", "done", "raised"}

\* C12: in tail mode, as long as no stop signal has been received, the loop
\* is not left and shutdown() is not reached; the step that ends a batch,
\* failed or not, goes to the sleep, the sleep goes back to the loop test, and
\* the loop test starts the next cycle.
C12_TailLoopSurvivesFailures ==
  /\ []((args.tail /\ running) => (~LoopLeft /\ bodyRuns = 0 /\ ~pending))
  /\ [][(args.tail /\ running' /\ pc' # pc) =>
          /\ (BatchComplete /\ SomeFailed) => pc' = "sleep"
          /\ pc = "sleep" => pc' = "loop"
          /\ pc = "loop" => (pc' = "batch" /\ cyclesStarted' = cyclesStarted + 1)]_vars

C12_Witness ==
  /\ args.tail /\ running
  /\ cyclesFailed >= 1
  /\ cyclesStarted = 2 /\ pc = "batch"

\* C13: a generator reports failure only after a call the program makes has
\* raised: without any such exception generate_traces reports success
\* whatever number of its tasks drew a simulated fault, and a non-tail run
\* does not raise.
C13_SimulatedFaultsNeverFailBatch ==
  faults = 0 =>
    /\ ~SomeFailed
    /\ collectOk
    /\ pc # "raised" /\ ~pending

C13_Witness ==
  /\ ~args.tail /\ pc = "done" /\ faults = 0
  /\ args.trace_count = 2
  /\ stats["traces"].errors = 2
  /\ results[1]

\* a trace task whose end segment has been opened and left without exception
PastSegments(t) ==
  kind = "traces" /\ ~t.raised /\ t.pc \in {"acq", "write", "set_status", "exit", "done"}

\* C14: a trace task that drew has_error = FALSE and met no exception gives,
\* whatever the two segment draws are, no ERROR status to start, middle or
\* root, no error event, no recorded exception and no error.propagated mark.
C14_NoFaultNoFailedSegment ==
  \A i \in 1..Len(tasks) :
    LET t == tasks[i]
    IN (kind = "traces" /\ ~t.has_error /\ ~t.raised) =>
         /\ t.start # "ERROR" /\ ~t.event
         /\ t.middle # "ERROR" /\ ~t.exc
         /\ ~t.prop
         /\ t.root # "ERROR"

C14_Witness ==
  \E i \in 1..Len(tasks) :
    /\ PastSegments(tasks[i]) /\ tasks[i].pc = "done"
    /\ ~tasks[i].has_error
    /\ tasks[i].dStart /\ tasks[i].dMid
    /\ tasks[i].start = "UNSET" /\ tasks[i].middle = "UNSET"

\* C15: in a faulty trace, the end segment carries the propagated-error mark
\* whenever the start segment or the middle segment was set to ERROR.
C15_EndMarkedWhenAncestorFailed ==
  \A i \in 1..Len(tasks) :
    LET t == tasks[i]
    IN (PastSegments(t) /\ t.has_error) =>
         ((t.start = "ERROR" \/ t.middle = "ERROR") => t.prop)

\* C16 as stated: every faulty trace has its start segment or its middle
\* segment marked as failed.
C16_ThreeFaultPatterns ==
  \A i \in 1..Len(tasks) :
    LET t == tasks[i]
    IN (PastSegments(t) /\ t.has_error) =>
         (t.start = "ERROR" \/ t.middle = "ERROR")

\* C16 amended: in a faulty trace the start segment fails exactly when its
\* draw hits and the middle segment exactly when its own draw hits, so there
\* are four patterns: start only, middle only, both, and neither; in each of
\* them the trace is finished as a failure with the root span set to ERROR.
C16_FourFaultPatterns ==
  \A i \in 1..Len(tasks) :
    LET t == tasks[i]
    IN (PastSegments(t) /\ t.has_error) =>
         /\ (t.start = "ERROR") <=> t.dStart
         /\ (t.middle = "ERROR") <=> t.dMid
         /\ t.pc = "done" => (t.root = "ERROR" /\ ~t.ret)

C16_Witness ==
  \E i \in 1..Len(tasks) :
    /\ PastSegments(tasks[i]) /\ tasks[i].pc = "done"
    /\ tasks[i].has_error
    /\ tasks[i].start = "UNSET" /\ tasks[i].middle = "UNSET"
    /\ tasks[i].root = "ERROR"

\* the spans of a trace in the order they are opened
ChainNames == <<"root", "start", "middle", "end">>

\* the parent the n-th span of task i must have
ParentOf(i, n) == IF n = 1 THEN <<0, "none">> ELSE <<i, ChainNames[n - 1]>>

\* C17: each trace task opens the spans root, start, middle, end in this
\* order, each one under the previous one of the same task (the root under
\* none); spans are closed innermost first; a task that met no exception has
\* opened exactly these four; and a finished task has no span left open.
C17_SegmentNesting ==
  kind = "traces" =>
    \A i \in 1..Len(tasks) :
      LET t == tasks[i]
      IN /\ IsPrefix(t.opened, ChainNames)
         /\ Len(t.parents) = Len(t.opened)
         /\ \A n \in 1..Len(t.opened) : t.parents[n] = ParentOf(i, n)
         /\ t.ctx \o Reverse(t.closed) = t.opened
         /\ PastSegments(t) => t.opened = ChainNames
         /\ t.pc = "done" => t.ctx = <<>>
         /\ (t.pc = "done" /\ ~t.raised) =>
              t.closed = <<"end", "middle", "start", "root">>

C17_Witness ==
  \E i, j \in 1..Len(tasks) :
    /\ i # j
    /\ tasks[i].pc = "done" /\ ~tasks[i].raised
    /\ tasks[i].closed = <<"end", "middle", "start", "root">>
    /\ Len(tasks[j].ctx) >= 2
    /\ tasks[j].parents[2] = <<j, "root">>

\* C18: when the root span of a trace has ended, its status is ERROR exactly
\* when the task returns failure, and is OK when the task returns success.
C18_RootStatusFinalized ==
  \A i \in 1..Len(tasks) :
    LET t == tasks[i]
    IN (PastSegments(t) /\ t.pc = "done") =>
         /\ (t.root = "ERROR") <=> ~t.ret
         /\ t.ret => t.root = "OK"

\* the two configuration errors: no kind has count > 0, or tail mode with a
\* non-positive interval
ConfigurationError(a) == ~validate_counts(a) \/ (a.tail /\ a.interval <= 0)

\* the namespace has reached the constructor (on the command-line path, after
\* validate_args applied --all)
AtConstructor == ctor.pc \notin {"parse", "validate"}

\* C19: a configuration with no count > 0, or with tail mode and an interval
\* <= 0, never gets a provider set up, never becomes a constructed sender,
\* never has a task submitted or a counter changed, and run() never starts;
\* on the command-line path and when TelemetrySender is constructed directly.
C19_ConfigErrorsRejectedBeforeSetup ==
  ((AtConstructor \/ ctor.pc = "validate") /\ ConfigurationError(ApplyAll(args))) =>
    /\ ctor.providers = {}
    /\ ctor.pc # "constructed"
    /\ pc = "init" /\ tasks = <<>> /\ stats = ZeroStats

\* C20: on the command-line path, construction fails only for the two
\* configuration errors (or a negative --all); for every other namespace the
\* constructor does not fail.
C20_ValidConfigConstructs ==
  (ctor.via = "cli" /\ ctor.pc = "failed") =>
    /\ ctor.error = "ValueError"
    /\ ConfigurationError(args) \/ (args.has_all /\ args.all < 0)

\* C21: a generator returns to _generate_single_batch only when every task
\* it submitted has finished and has added its outcome to the counters;
\* whenever the main thread is outside a generator, and so when the batch
\* returns, no task of the batch is in flight.
C21_BarrierBeforeReturn ==
  /\ [](pc # "gen_wait" => (InFlight = {} /\ Len(tasks) = 0))
  /\ [][(pc = "gen_wait" /\ pc' # "gen_wait") =>
          \A i \in 1..Len(tasks) :
            tasks[i].pc = "done" /\ tasks[i].incS + tasks[i].incE >= 1]_vars

C21_Witness ==
  /\ pc = "batch" /\ args.parallel = 2
  /\ Len(results) = 1 /\ ~results[1]
  /\ Count(kind) = 2
  /\ Recorded(kind) = Recorded0(kind) + 2

\* C22: in non-tail mode at most one batch is started; when run() has gone on
\* to the finally clause exactly one batch has been started and has run to
\* its end, whether or not a signal arrived before or during it.
C22_SingleBatchDespiteSignal ==
  ~args.tail =>
    /\ cyclesStarted <= 1
    /\ LoopLeft => (cyclesStarted = 1 /\ cyclesCompleted = 1)
    /\ RunEnded => bodyRuns = 1

C22_Witness ==
  /\ ~args.tail /\ RunEnded
  /\ ~running /\ startedAtSignal = 0
  /\ cyclesCompleted = 1

\* the calls that flush a provider
IsFlush(op) == op \in {"metric_force_flush", "log_force_flush"}

\* C23: shutdown() touches only providers that were initialized, in the order
\* trace, metric, log, and never flushes a provider after having closed it.
C23_InitializedInOrderFlushFirst ==
  \A n \in 1..Len(ops) :
    /\ OpKind(ops[n]) \in ctor.providers
    /\ \A m \in 1..(n - 1) :
         /\ KindIndex(OpKind(ops[m])) <= KindIndex(OpKind(ops[n]))
         /\ ~(/\ OpKind(ops[m]) = OpKind(ops[n])
              /\ ops[m] = CloseOp(OpKind(ops[m]))
              /\ IsFlush(ops[n]))

\* the tasks inside a counter update: `+= 1` read but not yet stored, or the
\* rest of the `with lock:` block still to run
InUpdate == {i \in 1..Len(tasks) : tasks[i].pc \in {"write", "x_write", "set_status"}}

\* C25: at most one task of the pool is inside a counter update, and that
\* task holds the generator's lock; a counter changes only in a step of the
\* task that holds the lock.
C25_IncrementsUnderSharedLock ==
  /\ [](/\ Cardinality(InUpdate) <= 1
        /\ \A i \in InUpdate : lock = i
        /\ (lock # 0) => lock \in InUpdate)
  /\ [][stats' # stats => (lock # 0 /\ lock \in InUpdate)]_vars

C25_Witness ==
  /\ args.parallel = 2
  /\ \E i, j \in 1..Len(tasks) :
       /\ i # j
       /\ tasks[i].pc = "write" /\ lock = i
       /\ tasks[j].pc = "acq"

\* C26: a step that clears self.running changes nothing else of the program
\* (counters, tasks, shutdown marker, provider calls, position of the main
\* thread), and no step sets self.running back to True.
C26_HandlerOnlyClearsFlag ==
  /\ [][running' # running =>
          /\ running /\ ~running'
          /\ UNCHANGED <<cfgVars, mainVars, poolVars, sdVars, cycleVars, faults>>]_vars
  /\ [][~running => ~running']_vars

C26_Witness ==
  /\ ~running
  /\ pc = "gen_wait" /\ InFlight # {}
  /\ ~hasShutdown /\ bodyRuns = 0 /\ ops = <<>>

\* C27: from the moment run() has called shutdown(), no task of any pool is
\* queued or in flight, and no task step follows a provider call.
C27_NoTaskDuringShutdown ==
  /\ []((sd["main"] # "idle" \/ bodyRuns > 0 \/ Len(ops) > 0) =>
          (Len(tasks) = 0 /\ pc \in {"shutdown", "done", "raised"}))
  /\ [][Len(ops) > 0 => (tasks' = tasks /\ stats' = stats)]_vars

C27_Witness ==
  /\ args.tail /\ pc = "done"
  /\ startedAtSignal = 1 /\ cyclesCompleted = 1
  /\ Len(ops) >= 1
  /\ \E k \in Kinds : Recorded(k) >= 1

\* C24: in tail mode, once self.running has been cleared, run() eventually
\* returns with shutdown() having run; and once run() has ended, no batch and
\* no task starts any more.
C24_StopLeadsToShutdown ==
  /\ (args.tail /\ ~running) ~>
       (pc = "done" /\ bodyRuns = 1 /\ sd["main"] = "returned")
  /\ [][RunEnded =>
          (pc' = pc /\ cyclesStarted' = cyclesStarted /\ tasks' = tasks)]_vars

C24_Witness ==
  /\ args.tail /\ ~running
  /\ pc = "done" /\ sd["main"] = "returned"
  /\ startedAtSignal >= 1
  /\ hasShutdown /\ Len(ops) >= 1

====
